---- MODULE Spec2Model ----
(***************************************************************************)
(* Model of train() in deepsignal2/train.py: startup cleanup of the model  *)
(* directory, the epoch / training-step loop, the periodic validation      *)
(* round with its checkpoint gate, and the early-stopping decision.        *)
(*                                                                         *)
(* Accuracies are exact rationals held as integers.  A per-batch accuracy  *)
(* is given in units of 0.0005 (so 1700 is 0.85) and stored multiplied by  *)
(* MeanDen, which every batch count divides, so that the mean of a round   *)
(* is an exact integer.  NaN is the value numpy gives the mean of an empty *)
(* list; every ordered comparison with it is false.                        *)
(* File names are sequences of one-character strings, so that the regular  *)
(* expression and the name formatting are computed character by character. *)
(***************************************************************************)
EXTENDS Integers, Sequences, FiniteSets, TLC

\* ------------------------------------------------------------------ bounds
MaxEpochNum == 2
MaxTotalStep == 2
MaxValidBatches == 2

RECURSIVE Factorial(_)
Factorial(n) == IF n <= 1 THEN 1 ELSE n * Factorial(n - 1)

\* Every number of validation batches 1..MaxValidBatches divides MeanDen.
MeanDen == Factorial(MaxValidBatches)

\* Per-batch accuracies the metric function may return, in units of 0.0005.
AccValues == {0, 1698, 1700}

NaN == -1

\* ------------------------------------------------------- file names, regex
Digit == <<"0", "1", "2", "3", "4", "5", "6", "7", "8", "9">>
DigitChars == {Digit[k] : k \in 1..10}

StrEpoch == <<"e", "p", "o", "c", "h">>
StrCkp == <<".", "c", "k", "p">>

\* str.format of a non-negative integer: its decimal digits.
RECURSIVE IntToStr(_)
IntToStr(n) == IF n < 10 THEN <<Digit[n + 1]>>
               ELSE IntToStr(n \div 10) \o <<Digit[(n % 10) + 1]>>

\* 'epoch{}.ckpt'.format(epoch)
CkptName(e) == StrEpoch \o IntToStr(e) \o StrCkp \o <<"t">>

\* Index of the first character at or after k that is not in cs (Len(s)+1 if none).
RECURSIVE SkipWhile(_, _, _)
SkipWhile(s, k, cs) == IF k <= Len(s) /\ s[k] \in cs THEN SkipWhile(s, k + 1, cs) ELSE k

HasAt(s, k, w) == Len(s) >= k + Len(w) - 1 /\ SubSeq(s, k, k + Len(w) - 1) = w

\* re.compile(r"epoch\d+\.ckpt*").match(s): anchored at the start only; after
\* "epoch", one or more digits and ".ckp" the final t* matches any number of
\* "t", zero included, and whatever follows is not looked at.
model_regex_match(s) ==
    /\ HasAt(s, 1, StrEpoch)
    /\ LET j == SkipWhile(s, 6, DigitChars) IN
         /\ j > 6
         /\ HasAt(s, j, StrCkp)
         /\ SkipWhile(s, j + 4, {"t"}) >= j + 4

\* ------------------------------------------------------------------- state
VARIABLES
    cfg,                       \* args and the lengths of the two loaders
    model_dir,                 \* "/" or the path of another directory
    dir_exists,                \* whether that directory exists
    pc,                        \* where train() is
    epoch,                     \* loop variable of line 73 (-1: not yet bound)
    i,                         \* training steps done in this epoch
    vaccus,                    \* per-batch accuracies of the round in progress
    curr_best_accuracy,
    curr_best_accuracy_epoch,
    files,                     \* model directory: file name -> content
    mode,                      \* the classifier's train/eval flag
    params,                    \* number of optimizer steps applied
    lr_steps,                  \* number of scheduler steps applied
    rounds,                    \* validation rounds ended in this epoch
    fwd,                       \* the last forward pass: its kind and the mode it ran in
    best_seen                  \* highest round mean printed so far (line 132-137)

vars == <<cfg, model_dir, dir_exists, pc, epoch, i, vaccus, curr_best_accuracy, curr_best_accuracy_epoch,
          files, mode, params, lr_steps, rounds, fwd, best_seen>>

Terminal == {"stopped_early", "completed", "error"}

\* Content of a file left by an earlier run, and of a checkpoint of this run.
OldFile == [by |-> "old", params |-> -1, acc |-> -1]
Saved(p, a) == [by |-> "run", params |-> p, acc |-> a]

NameNotes == <<"n", "o", "t", "e", "s", ".", "t", "x", "t">>
NameNoDigits == StrEpoch \o StrCkp \o <<"t">>
NameShort == StrEpoch \o <<"2">> \o StrCkp
NameBak == CkptName(1) \o <<".", "b", "a", "k">>
NamePrefixed == <<"m", "y">> \o CkptName(1)

\* The model directory when train() is called: a path that does not exist
\* yet, an existing directory with files of earlier runs, or "/".
DirCases ==
    { [model_dir |-> "d", dir_exists |-> FALSE, names |-> {}],
      [model_dir |-> "d", dir_exists |-> TRUE,
       names |-> {CkptName(3), CkptName(10), NameNotes}],
      [model_dir |-> "d", dir_exists |-> TRUE,
       names |-> {CkptName(0), NameBak, NameNoDigits, NamePrefixed}],
      [model_dir |-> "d", dir_exists |-> TRUE, names |-> {NameShort, NameNotes}],
      [model_dir |-> "/", dir_exists |-> TRUE, names |-> {CkptName(0), NameNotes}] }

DirOf(names) == [n \in names |-> OldFile]

Configs ==
    [ max_epoch_num : 0..MaxEpochNum,
      min_epoch_num : 1..MaxEpochNum,
      step_interval : 0..MaxTotalStep,
      total_step : 0..MaxTotalStep,
      valid_step : 0..MaxValidBatches ]

InitRest ==
    /\ pc = "startup"
    /\ epoch = -1
    /\ i = 0
    /\ vaccus = <<>>
    /\ curr_best_accuracy = 0
    /\ curr_best_accuracy_epoch = 0
    /\ mode = "train"
    /\ params = 0
    /\ lr_steps = 0
    /\ rounds = 0
    /\ fwd = [kind |-> "none", mode |-> "none"]
    /\ best_seen = 0

Init ==
    /\ cfg \in Configs
    /\ \E d \in DirCases :
         /\ model_dir = d.model_dir
         /\ dir_exists = d.dir_exists
         /\ files = DirOf(d.names)
    /\ InitRest

\* ----------------------------------------------------------------- actions
\* Variants of ForEpoch: the epoch best carried over; one epoch too many.
ForEpochNoReset(e) ==
    IF e < cfg.max_epoch_num
    THEN /\ epoch' = e
         /\ i' = 0
         /\ rounds' = 0
         /\ pc' = "train"
         /\ UNCHANGED curr_best_accuracy_epoch
    ELSE /\ pc' = "completed"
         /\ UNCHANGED <<epoch, curr_best_accuracy_epoch, i, rounds>>

ForEpochOneMore(e) ==
    IF e <= cfg.max_epoch_num
    THEN /\ epoch' = e
         /\ curr_best_accuracy_epoch' = 0
         /\ i' = 0
         /\ rounds' = 0
         /\ pc' = "train"
    ELSE /\ pc' = "completed"
         /\ UNCHANGED <<epoch, curr_best_accuracy_epoch, i, rounds>>

\* Line 73-74: the for statement takes the next epoch index e, or the loop ends.
ForEpoch(e) ==
    IF e < cfg.max_epoch_num
    THEN /\ epoch' = e
         /\ curr_best_accuracy_epoch' = 0
         /\ i' = 0
         /\ rounds' = 0
         /\ pc' = "train"
    ELSE /\ pc' = "completed"
         /\ UNCHANGED <<epoch, curr_best_accuracy_epoch, i, rounds>>

\* Lines 44-51: the directory listing after the cleanup.
Cleanup(dir) ==
    IF model_dir = "/" THEN dir
    ELSE IF ~dir_exists THEN DirOf({})
    ELSE [n \in {m \in DOMAIN dir : ~model_regex_match(m)} |-> dir[n]]

\* Lines 42-74: cleanup, construction, and entry into the epoch loop.
Startup ==
    /\ pc = "startup"
    /\ files' = Cleanup(files)
    /\ dir_exists' = TRUE
    /\ model_dir' = IF model_dir = "/" THEN "/" ELSE "d/"
    /\ curr_best_accuracy' = 0
    /\ ForEpoch(0)
    /\ UNCHANGED <<cfg, vaccus, mode, params, lr_steps, fwd, best_seen>>

\* Variant of model_train: the call of line 85 left out.
model_train_missing(m) == m

\* Line 85: model.train() puts the classifier in training mode.
model_train(m) == "train"

\* Line 97: model.eval().
model_eval(m) == "eval"

\* Variant of RoundDue: the step counter taken 0-based.
RoundDueZeroBased(n) == (n - 1) % cfg.step_interval = 0

\* Line 96, for the n-th training step of the epoch (n = i + 1).
RoundDue(n) == n % cfg.step_interval = 0

\* Lines 75-98: one training step; line 96 decides whether a round follows.
\* With step_interval = 0 line 96 raises ZeroDivisionError.
TrainStep ==
    /\ pc = "train"
    /\ i < cfg.total_step
    /\ fwd' = [kind |-> "train", mode |-> model_train(mode)]
    /\ params' = params + 1
    /\ i' = i + 1
    /\ vaccus' = <<>>
    /\ IF cfg.step_interval = 0
       THEN /\ pc' = "error"
            /\ mode' = model_train(mode)
       ELSE IF RoundDue(i + 1)
       THEN /\ pc' = "valid"
            /\ mode' = model_eval(model_train(mode))
       ELSE /\ pc' = "train"
            /\ mode' = model_train(mode)
    /\ UNCHANGED <<cfg, model_dir, dir_exists, epoch, curr_best_accuracy,
                   curr_best_accuracy_epoch, files, lr_steps, rounds, best_seen>>

\* Variant of ValidBatch: the validation batch also takes an optimizer step.
ValidBatchTrains(a) ==
    /\ pc = "valid"
    /\ Len(vaccus) < cfg.valid_step
    /\ vaccus' = Append(vaccus, a * MeanDen)
    /\ fwd' = [kind |-> "valid", mode |-> mode]
    /\ params' = params + 1
    /\ UNCHANGED <<cfg, model_dir, dir_exists, pc, epoch, i, curr_best_accuracy,
                   curr_best_accuracy_epoch, files, mode, lr_steps, rounds, best_seen>>

\* Lines 99-124: one validation batch with per-batch accuracy a.
ValidBatch(a) ==
    /\ pc = "valid"
    /\ Len(vaccus) < cfg.valid_step
    /\ vaccus' = Append(vaccus, a * MeanDen)
    /\ fwd' = [kind |-> "valid", mode |-> mode]
    /\ UNCHANGED <<cfg, model_dir, dir_exists, pc, epoch, i, curr_best_accuracy,
                   curr_best_accuracy_epoch, files, mode, params, lr_steps, rounds, best_seen>>

RECURSIVE Sum(_)
Sum(s) == IF s = <<>> THEN 0 ELSE Head(s) + Sum(Tail(s))

\* Variant of np_mean: the accuracy of the last batch instead of the mean.
np_mean_last(s) == IF Len(s) = 0 THEN NaN ELSE s[Len(s)]

\* np.mean: NaN (with a warning, no exception) for an empty list.
np_mean(s) == IF Len(s) = 0 THEN NaN ELSE Sum(s) \div Len(s)

\* Float comparison; false whenever an operand is NaN.
Gt(a, b) == a # NaN /\ b # NaN /\ a > b

\* 0.001 of line 128, in stored units.
Tolerance == 2 * MeanDen

\* Variant of EpochImproved: a tie counts.
EpochImprovedTie(m, best_epoch) == m # NaN /\ m >= best_epoch

\* Line 126.
EpochImproved(m, best_epoch) == Gt(m, best_epoch)

\* Variants of SaveGate: no tolerance band; the band on the wrong side.
SaveGateNoBand(best_epoch, best) == Gt(best_epoch, best)

SaveGateAbove(best_epoch, best) == Gt(best_epoch, best + Tolerance)

\* Line 128.
SaveGate(best_epoch, best) == Gt(best_epoch, best - Tolerance)

\* Variant of WriteCkpt: the file named by the 1-based epoch number.
WriteCkptOneBased(dir, e, p, a) ==
    [n \in DOMAIN dir \cup {CkptName(e + 1)} |->
        IF n = CkptName(e + 1) THEN Saved(p, a) ELSE dir[n]]

\* Line 129.
WriteCkpt(dir, e, p, a) ==
    [n \in DOMAIN dir \cup {CkptName(e)} |->
        IF n = CkptName(e) THEN Saved(p, a) ELSE dir[n]]

\* Lines 126-139: the end of a validation round.
ValidEnd ==
    /\ pc = "valid"
    /\ Len(vaccus) = cfg.valid_step
    /\ LET m == np_mean(vaccus) IN
         IF EpochImproved(m, curr_best_accuracy_epoch)
         THEN /\ curr_best_accuracy_epoch' = m
              /\ files' = IF SaveGate(m, curr_best_accuracy)
                          THEN WriteCkpt(files, epoch, params, m) ELSE files
         ELSE UNCHANGED <<curr_best_accuracy_epoch, files>>
    /\ best_seen' = LET m == np_mean(vaccus) IN IF Gt(m, best_seen) THEN m ELSE best_seen
    /\ rounds' = rounds + 1
    /\ pc' = "train"
    /\ UNCHANGED <<cfg, model_dir, dir_exists, epoch, i, vaccus, curr_best_accuracy,
                   mode, params, lr_steps, fwd>>

\* Variants of RunImproved: a tie counts; every epoch counts; only a gain
\* of more than 0.001 counts.
RunImprovedTie(best_epoch, best) == best_epoch >= best

RunImprovedByMargin(best_epoch, best) == Gt(best_epoch, best + Tolerance)

RunImprovedAlways(best_epoch, best) == TRUE

\* Line 141.
RunImproved(best_epoch, best) == Gt(best_epoch, best)

\* Variants of MinEpochsDone: one epoch late; one epoch early.
MinEpochsDoneLate(e) == e >= cfg.min_epoch_num

MinEpochsDoneEarly(e) == e >= cfg.min_epoch_num - 2

\* Line 144.
MinEpochsDone(e) == e >= cfg.min_epoch_num - 1

\* Variant of scheduler_step: the call of line 140 left out.
scheduler_step_missing(n) == n

\* Line 140: scheduler.step(), counted.
scheduler_step(n) == n + 1

\* Lines 140-146 and the loop head 73-74: the end of an epoch.
EpochEnd ==
    /\ pc = "train"
    /\ i = cfg.total_step
    /\ lr_steps' = scheduler_step(lr_steps)
    /\ IF RunImproved(curr_best_accuracy_epoch, curr_best_accuracy)
       THEN /\ curr_best_accuracy' = curr_best_accuracy_epoch
            /\ ForEpoch(epoch + 1)
       ELSE /\ UNCHANGED curr_best_accuracy
            /\ IF MinEpochsDone(epoch)
               THEN /\ pc' = "stopped_early"
                    /\ UNCHANGED <<epoch, curr_best_accuracy_epoch, i, rounds>>
               ELSE ForEpoch(epoch + 1)
    /\ UNCHANGED <<cfg, model_dir, dir_exists, vaccus, files, mode, params, fwd, best_seen>>

Step ==
    \/ Startup
    \/ TrainStep
    \/ ValidEnd
    \/ EpochEnd

Next ==
    \/ Step
    \/ \E a \in AccValues : ValidBatch(a)

Spec == Init /\ [][Next]_vars

\* train() is one sequential thread: a step that can be taken is taken.
\* The directory's content has no part in termination: one directory is used.
InitFair == Init /\ ~dir_exists

FairSpec == InitFair /\ [][Next]_vars /\ WF_vars(Next)

\* --------------------------------------------------------------- scenarios
\* The two runs of the specification's section 8: min_epoch_num = 3,
\* max_epoch_num = 10, and the best validation accuracy of each epoch given
\* (in units of 0.0005).  Every epoch has at least one validation round.
ScenarioConfigs ==
    { c \in [ max_epoch_num : {10},
              min_epoch_num : {3},
              step_interval : 1..MaxTotalStep,
              total_step : 1..MaxTotalStep,
              valid_step : 1..MaxValidBatches ] : c.step_interval <= c.total_step }

InitScenario ==
    /\ cfg \in ScenarioConfigs
    /\ \E d \in DirCases :
         /\ model_dir = d.model_dir
         /\ dir_exists = d.dir_exists
         /\ files = DirOf(d.names)
    /\ InitRest

ScriptTie == <<1600, 1700, 1700, 1700>>
ScriptFall == <<1600, 1580, 1560, 1540>>

\* No later round of this epoch follows the round in progress.
FinalRound == i + cfg.step_interval > cfg.total_step

\* Per-batch accuracies whose round means give epoch e the best script[e + 1]:
\* no batch is above it, and the last round reaches it if none did before.
ScenarioAccs(script) ==
    IF epoch < 0 \/ epoch + 1 > Len(script) THEN AccValues
    ELSE LET t == script[epoch + 1] IN
         IF FinalRound /\ curr_best_accuracy_epoch < t * MeanDen THEN {t} ELSE {t, t - 2}

NextTie ==
    \/ Step
    \/ \E a \in ScenarioAccs(ScriptTie) : ValidBatch(a)

NextFall ==
    \/ Step
    \/ \E a \in ScenarioAccs(ScriptFall) : ValidBatch(a)

SpecTie == InitScenario /\ [][NextTie]_vars /\ WF_vars(NextTie)

SpecFall == InitScenario /\ [][NextFall]_vars /\ WF_vars(NextFall)

\* ------------------------------------------------------------------ claims
\* The step about to be taken is the end of an epoch (lines 140-146).
AtEpochEnd == pc = "train" /\ i = cfg.total_step

\* The step about to be taken is the end of a validation round (lines 126-129).
AtRoundEnd == pc = "valid" /\ Len(vaccus) = cfg.valid_step

\* C1: at the end of every epoch the run stops early exactly when
\* curr_best_accuracy_epoch <= curr_best_accuracy and epoch >= min_epoch_num - 1;
\* in every other case the run-level best is raised to the epoch's best when
\* that is greater, and the loop goes on to the next epoch if one remains
\* (and is completed if none does).
C1_EarlyStopIff ==
    [][AtEpochEnd =>
        LET stop == /\ curr_best_accuracy_epoch <= curr_best_accuracy
                    /\ epoch >= cfg.min_epoch_num - 1
        IN /\ (pc' = "stopped_early") <=> stop
           /\ ~stop =>
                /\ \/ curr_best_accuracy' > curr_best_accuracy
                   \/ /\ curr_best_accuracy' = curr_best_accuracy
                      /\ epoch < cfg.min_epoch_num - 1
                /\ IF epoch + 1 < cfg.max_epoch_num
                   THEN pc' = "train" /\ epoch' = epoch + 1
                   ELSE pc' = "completed"]_vars

\* C1 witness: a run stopped on a tie with a run-level best above 0.
C1_Witness ==
    /\ pc = "stopped_early"
    /\ curr_best_accuracy_epoch = curr_best_accuracy
    /\ curr_best_accuracy > 0

\* A checkpoint is written by the step taken.
Wrote == files' # files

\* C2 as stated: a round writes a checkpoint exactly when its mean is above
\* curr_best_accuracy_epoch and above curr_best_accuracy - 0.001; in every
\* other round nothing is written and curr_best_accuracy_epoch is unchanged.
C2_AsStated ==
    [][AtRoundEnd =>
        LET m == np_mean(vaccus)
            both == /\ m # NaN
                    /\ m > curr_best_accuracy_epoch
                    /\ m > curr_best_accuracy - Tolerance
        IN /\ Wrote <=> both
           /\ ~both => /\ ~Wrote
                       /\ curr_best_accuracy_epoch' = curr_best_accuracy_epoch]_vars

\* C2 amended: a round writes a checkpoint exactly when its mean is above
\* curr_best_accuracy_epoch and above curr_best_accuracy - 0.001;
\* curr_best_accuracy_epoch becomes the mean whenever the mean is above it,
\* written or not, and is unchanged, with nothing written, when it is not.
C2_WriteIff ==
    [][AtRoundEnd =>
        LET m == np_mean(vaccus)
            better == m # NaN /\ m > curr_best_accuracy_epoch
            both == better /\ m > curr_best_accuracy - Tolerance
        IN /\ Wrote <=> both
           /\ curr_best_accuracy_epoch' = IF better THEN m ELSE curr_best_accuracy_epoch
           /\ ~better => ~Wrote]_vars

\* C2 witness: an epoch whose best was raised by a round that wrote nothing.
C2_Witness ==
    /\ pc = "train"
    /\ curr_best_accuracy_epoch > 0
    /\ CkptName(epoch) \notin DOMAIN files

\* C3 as stated: with min_epoch_num = 3, max_epoch_num = 10 and epoch bests
\* 0.80, 0.85, 0.85, 0.85 the run halts after epoch index 3, not earlier.
C3_AsStated == pc = "stopped_early" => epoch = 3

\* C3 amended: with that configuration and those epoch bests the run halts
\* after epoch index 2 (three epochs are run): epoch 2 ties with the best of
\* epoch 1 and 2 >= min_epoch_num - 1.  It halts at no earlier epoch, starts
\* no epoch 3, and ends neither completed nor in error.
C3_HaltsAfterEpoch2 ==
    /\ [](pc = "stopped_early" => epoch = 2)
    /\ [](epoch <= 2 /\ pc \notin {"completed", "error"})
    /\ <>(pc = "stopped_early")

\* C3 witness: the run stopped after epoch 2 with the run-level best 0.85.
C3_Witness ==
    /\ pc = "stopped_early"
    /\ epoch = 2
    /\ curr_best_accuracy = 1700 * MeanDen
    /\ curr_best_accuracy_epoch = 1700 * MeanDen

\* C4: with min_epoch_num = 3, max_epoch_num = 10 and epoch bests 0.80, 0.79,
\* 0.78, 0.77 the run does not stop at epoch index 1, stops at epoch index 2
\* (after exactly min_epoch_num epochs), and never starts epoch index 3.
C4_HaltsAtMinEpoch ==
    /\ [](pc = "stopped_early" => epoch = 2 /\ epoch + 1 = cfg.min_epoch_num)
    /\ [](epoch <= 2 /\ pc \notin {"completed", "error"})
    /\ <>(pc = "stopped_early")

\* C4 witness: the run stopped after epoch 2, whose best 0.78 is below the
\* run-level best 0.80 of epoch 0.
C4_Witness ==
    /\ pc = "stopped_early"
    /\ epoch = 2
    /\ curr_best_accuracy = 1600 * MeanDen
    /\ curr_best_accuracy_epoch = 1560 * MeanDen

\* C5: a validation round over zero batches is fatal: the run ends in error
\* at that round and the round writes no checkpoint.  (The code computes the
\* mean NaN instead, writes nothing and goes on training.)
C5_ZeroBatchesFatal ==
    [][(AtRoundEnd /\ cfg.valid_step = 0) => (pc' = "error" /\ ~Wrote)]_vars

\* C6: every run ends: it raises, stops early or is completed; a run that
\* does not raise has then run at least one and at most max_epoch_num epochs
\* (max_epoch_num >= 1), each with its decay step; and at a terminal state
\* no step changes anything any more.
C6_Terminates ==
    /\ <>(pc \in Terminal)
    /\ []((pc \in {"stopped_early", "completed"} /\ cfg.max_epoch_num >= 1) =>
            /\ 1 <= epoch + 1
            /\ epoch + 1 <= cfg.max_epoch_num
            /\ lr_steps = epoch + 1)
    /\ [][(pc \in Terminal) => (vars' = vars)]_vars

\* C6 witness: a run completed after all of its two or more epochs.
C6_Witness ==
    /\ pc = "completed"
    /\ cfg.max_epoch_num >= 2
    /\ epoch + 1 = cfg.max_epoch_num
    /\ curr_best_accuracy > 0

\* C7: when a run has stopped early its epoch index is at least
\* min_epoch_num - 1 and at least min_epoch_num epochs have completed their
\* full training pass (each followed by its decay step).
C7_StopOnlyAfterMinEpochs ==
    pc = "stopped_early" =>
        /\ epoch >= cfg.min_epoch_num - 1
        /\ i = cfg.total_step
        /\ lr_steps >= cfg.min_epoch_num

\* C7 witness: a run with min_epoch_num >= 2 stopped at epoch min_epoch_num - 1.
C7_Witness ==
    /\ pc = "stopped_early"
    /\ cfg.min_epoch_num >= 2
    /\ epoch = cfg.min_epoch_num - 1
    /\ cfg.total_step >= 1

\* C8: curr_best_accuracy_epoch is 0 when an epoch starts, whatever it was
\* at the end of the epoch before, and does not decrease within an epoch.
C8_EpochBestResetAndMonotone ==
    /\ []((pc = "train" /\ i = 0) => curr_best_accuracy_epoch = 0)
    /\ [][/\ epoch' # epoch => curr_best_accuracy_epoch' = 0
          /\ epoch' = epoch => curr_best_accuracy_epoch' >= curr_best_accuracy_epoch]_vars

\* C8 witness: a later epoch starts at 0 after an epoch that ended above 0.
C8_Witness ==
    /\ pc = "train"
    /\ i = 0
    /\ epoch >= 1
    /\ curr_best_accuracy_epoch = 0
    /\ curr_best_accuracy > 0

\* C9: curr_best_accuracy is 0 until the first epoch has ended, changes only
\* at the end of an epoch, and every change strictly increases it.
C9_RunBestMonotone ==
    /\ []((pc # "startup" /\ lr_steps = 0) => curr_best_accuracy = 0)
    /\ [][curr_best_accuracy' # curr_best_accuracy =>
            AtEpochEnd /\ curr_best_accuracy' > curr_best_accuracy]_vars

\* C9 witness: a second epoch has ended below a run-level best above 0.
C9_Witness ==
    /\ lr_steps >= 2
    /\ curr_best_accuracy > 0
    /\ curr_best_accuracy_epoch < curr_best_accuracy
    /\ pc \in {"stopped_early", "completed"}

\* The checkpoint naming pattern epoch<digits>.ckpt*: "epoch", one or more
\* digits, ".ckpt", then anything.
CheckpointPattern(s) ==
    /\ HasAt(s, 1, StrEpoch)
    /\ LET j == SkipWhile(s, 6, DigitChars) IN
         j > 6 /\ HasAt(s, j, StrCkp \o <<"t">>)

\* C10: startup cleanup runs before the first epoch and removes from an
\* existing model directory exactly the files that match the checkpoint
\* pattern; after startup every file of the directory that matches the
\* pattern was written by this run.
C10_CleanupExact ==
    /\ [][pc = "startup" =>
            /\ epoch = -1
            /\ dir_exists =>
                 DOMAIN files' = {n \in DOMAIN files : ~CheckpointPattern(n)}]_vars
    /\ [](pc # "startup" =>
            \A n \in DOMAIN files : CheckpointPattern(n) => files[n].by = "run")

\* C11: a validation round changes neither the classifier's parameters nor
\* curr_best_accuracy nor the epoch index; the parameters change only by the
\* one optimizer step of a training step.  So throughout a round, and in a
\* checkpoint the round writes, the parameters are those left by the
\* training step that triggered it: step i of epoch `epoch`.
C11_RoundKeepsParams ==
    /\ [](pc = "valid" => params = epoch * cfg.total_step + i)
    /\ [][(pc = "valid") =>
            /\ params' = params
            /\ curr_best_accuracy' = curr_best_accuracy
            /\ epoch' = epoch
            /\ Wrote => files'[CkptName(epoch)].params = params]_vars
    /\ [][params' # params =>
            pc = "train" /\ i < cfg.total_step /\ params' = params + 1]_vars

\* C11 witness: a round of a later epoch, after all of its batches, whose
\* epoch already has a checkpoint written by an earlier round.
C11_Witness ==
    /\ pc = "valid"
    /\ epoch >= 1
    /\ Len(vaccus) = cfg.valid_step
    /\ cfg.valid_step >= 2
    /\ CkptName(epoch) \in DOMAIN files
    /\ files[CkptName(epoch)].by = "run"
    /\ files[CkptName(epoch)].params < params

\* C12: a step of the run after startup changes no file but epoch<e>.ckpt, e
\* the epoch in progress, and removes none; the files written by the run are
\* among epoch0.ckpt .. epoch<e>.ckpt, one per epoch at most.
C12_OneFilePerEpoch ==
    /\ [][(pc # "startup") =>
            /\ DOMAIN files \subseteq DOMAIN files'
            /\ DOMAIN files' \subseteq DOMAIN files \cup {StrEpoch \o IntToStr(epoch) \o StrCkp \o <<"t">>}
            /\ \A n \in DOMAIN files :
                 n # StrEpoch \o IntToStr(epoch) \o StrCkp \o <<"t">> => files'[n] = files[n]]_vars
    /\ [](LET written == {n \in DOMAIN files : files[n].by = "run"} IN
            /\ \A n \in written : \E e \in 0..epoch : n = CkptName(e)
            /\ Cardinality(written) <= epoch + 1)

\* C12 witness: in epoch 1 the checkpoints of epoch 0 and of epoch 1 both
\* exist, the second one rewritten by a second round of epoch 1.
C12_Witness ==
    /\ epoch = 1
    /\ CkptName(0) \in DOMAIN files
    /\ CkptName(1) \in DOMAIN files
    /\ files[CkptName(0)].by = "run"
    /\ files[CkptName(1)].by = "run"
    /\ rounds = 2
    /\ files[CkptName(1)].params = params
    /\ files[CkptName(1)].acc = 1700 * MeanDen
    /\ files[CkptName(0)].acc = 1698 * MeanDen

\* Runs for the averaging of a round: one round after every training step,
\* one or more validation batches, per-batch accuracies 0.7, 0.85 and 0.9.
MeanConfigs ==
    [ max_epoch_num : 1..MaxEpochNum,
      min_epoch_num : {1},
      step_interval : {1},
      total_step : 1..MaxTotalStep,
      valid_step : 1..MaxValidBatches ]

InitMean ==
    /\ cfg \in MeanConfigs
    /\ model_dir = "d"
    /\ dir_exists = FALSE
    /\ files = DirOf({})
    /\ InitRest

MeanAccValues == {1400, 1700, 1800}

NextMean ==
    \/ Step
    \/ \E a \in MeanAccValues : ValidBatch(a)

SpecMean == InitMean /\ [][NextMean]_vars

\* The sum of the first k elements of s.
RECURSIVE Total(_, _)
Total(s, k) == IF k = 0 THEN 0 ELSE Total(s, k - 1) + s[k]

\* C13: the mean accuracy a round acts on is the sum of the per-batch
\* accuracies of all batches of the validation stream divided by their
\* number: when the round raises curr_best_accuracy_epoch the new value times
\* the number of batches is that sum, and when it does not the sum is at most
\* the old value times the number of batches; the highest mean seen so far
\* is kept likewise.  Per-batch accuracies 0.9 and 0.7 give the mean 0.8.
C13_ArithmeticMean ==
    /\ [][AtRoundEnd =>
            LET n == Len(vaccus)
                total == Total(vaccus, n)
            IN /\ n = cfg.valid_step
               /\ curr_best_accuracy_epoch' # curr_best_accuracy_epoch =>
                    curr_best_accuracy_epoch' * n = total
               /\ curr_best_accuracy_epoch' = curr_best_accuracy_epoch =>
                    total <= curr_best_accuracy_epoch * n
               /\ best_seen' * n >= total
               /\ best_seen' # best_seen => best_seen' * n = total]_vars
    /\ []((pc = "train" /\ i = 1 /\ rounds = 1
            /\ vaccus = <<1800 * MeanDen, 1400 * MeanDen>>) =>
           curr_best_accuracy_epoch = 1600 * MeanDen)

\* C13 witness: the first round of an epoch had the accuracies 0.9 and 0.7
\* and left the epoch best 0.8.
C13_Witness ==
    /\ pc = "train"
    /\ i = 1
    /\ rounds = 1
    /\ vaccus = <<1800 * MeanDen, 1400 * MeanDen>>
    /\ curr_best_accuracy_epoch = 1600 * MeanDen

\* C14: with step_interval >= 1, the training step numbered n of an epoch
\* (n counted from 1 in every epoch) is followed by a validation round
\* exactly when n is a multiple of step_interval; the round starts after the
\* optimizer step of that training step, no training step is taken before it
\* has covered the whole validation stream, and after n training steps of an
\* epoch floor(n / step_interval) rounds have ended.
C14_RoundCadence ==
    /\ []((pc = "valid") =>
            /\ cfg.step_interval >= 1
            /\ i >= 1
            /\ i % cfg.step_interval = 0
            /\ rounds = (i \div cfg.step_interval) - 1)
    /\ []((pc = "train" /\ cfg.step_interval >= 1) => rounds = i \div cfg.step_interval)
    /\ [][(pc = "train" /\ i < cfg.total_step /\ cfg.step_interval >= 1) =>
            /\ i' = i + 1
            /\ params' = params + 1
            /\ (pc' = "valid") <=> (i' % cfg.step_interval = 0)
            /\ pc' = "valid" => vaccus' = <<>>]_vars
    /\ [][(pc = "valid") =>
            /\ i' = i
            /\ params' = params
            /\ pc' # "valid" => (pc' = "train" /\ Len(vaccus) = cfg.valid_step)]_vars

\* C14 witness: a later epoch of two training steps with step_interval = 2
\* is at its end after exactly one round.
C14_Witness ==
    /\ pc = "train"
    /\ epoch >= 1
    /\ cfg.step_interval = 2
    /\ i = cfg.total_step
    /\ i >= 2
    /\ rounds = 1
    /\ cfg.valid_step >= 1

\* C15: every training forward pass runs with the classifier in training
\* mode and every validation forward pass with the classifier in evaluation
\* mode, whatever the interleaving of training steps and validation rounds.
C15_ForwardModes ==
    /\ fwd.kind = "train" => fwd.mode = "train"
    /\ fwd.kind = "valid" => fwd.mode = "eval"
    /\ pc = "valid" => mode = "eval"

\* C15 witness: the last forward pass was the training step that followed a
\* validation round of the same epoch in which a batch was scored.
C15_Witness ==
    /\ fwd = [kind |-> "train", mode |-> "train"]
    /\ rounds = 1
    /\ i = 2
    /\ cfg.step_interval = 1
    /\ cfg.valid_step >= 1
    /\ vaccus = <<>>

\* C16: the learning-rate decay is applied once per epoch run, at the end of
\* the epoch's training pass and with the early-stopping decision of the same
\* epoch following it; while epoch e is running e decays have been applied,
\* and at a terminal state the number of decays equals the number of epochs
\* run, the epoch of an early stop included.
C16_DecayOncePerEpoch ==
    /\ []((pc \in {"train", "valid"}) => lr_steps = epoch)
    /\ []((pc \in {"stopped_early", "completed"}) => lr_steps = epoch + 1)
    /\ [][(lr_steps' # lr_steps) =>
            /\ AtEpochEnd
            /\ lr_steps' = lr_steps + 1]_vars
    /\ [][AtEpochEnd => lr_steps' = lr_steps + 1]_vars

\* C16 witness: the run stopped early in its second epoch, after two decays.
C16_Witness ==
    /\ pc = "stopped_early"
    /\ epoch = 1
    /\ lr_steps = 2

\* C17: at the end of every epoch, after the early-stopping update,
\* curr_best_accuracy is the larger of its value before the epoch and the
\* epoch's final curr_best_accuracy_epoch, hence the maximum of 0 and the final
\* curr_best_accuracy_epoch of every epoch run so far, and it equals the highest
\* validation mean accuracy of any validation round of the run so far.
C17_RunBestIsMaxSeen ==
    /\ []((pc \in {"stopped_early", "completed"} \/ (pc = "train" /\ i = 0)) =>
            curr_best_accuracy = best_seen)
    /\ [][AtEpochEnd =>
            curr_best_accuracy' =
                IF curr_best_accuracy_epoch > curr_best_accuracy
                THEN curr_best_accuracy_epoch
                ELSE curr_best_accuracy]_vars
    /\ []((pc \in {"train", "valid"}) =>
            /\ curr_best_accuracy_epoch <= best_seen
            /\ best_seen \in {curr_best_accuracy, curr_best_accuracy_epoch})

\* C17 witness: the second epoch has ended and the run's best is the mean of
\* a round of the first epoch, which the second epoch did not reach.
C17_Witness ==
    /\ pc \in {"stopped_early", "completed"}
    /\ epoch = 1
    /\ curr_best_accuracy = 1700 * MeanDen
    /\ curr_best_accuracy_epoch = 1698 * MeanDen

\* C18: whenever curr_best_accuracy is raised at the end of epoch e, the file
\* epoch<e>.ckpt exists, was last written by a validation round of epoch e,
\* and that round's mean accuracy is the new curr_best_accuracy; hence at
\* every terminal state with curr_best_accuracy > 0 some checkpoint written
\* by this run holds the parameters of the round with the run's best accuracy.
C18_BestHasCheckpoint ==
    /\ [][(curr_best_accuracy' # curr_best_accuracy) =>
            /\ AtEpochEnd
            /\ CkptName(epoch) \in DOMAIN files'
            /\ files' = files
            /\ files[CkptName(epoch)].by = "run"
            /\ files[CkptName(epoch)].acc = curr_best_accuracy'
            /\ files[CkptName(epoch)].params > epoch * cfg.total_step
            /\ files[CkptName(epoch)].params <= params]_vars
    /\ []((pc \in Terminal /\ curr_best_accuracy > 0) =>
            \E n \in DOMAIN files :
                /\ files[n].by = "run"
                /\ files[n].acc = curr_best_accuracy
                /\ files[n].acc = best_seen)

\* C18 witness: the run's best was raised at the end of both epochs, and each
\* epoch's file holds the round that raised it.
C18_Witness ==
    /\ pc \in {"stopped_early", "completed"}
    /\ epoch = 1
    /\ curr_best_accuracy = 1700 * MeanDen
    /\ CkptName(0) \in DOMAIN files
    /\ CkptName(1) \in DOMAIN files
    /\ files[CkptName(0)].acc = 1698 * MeanDen
    /\ files[CkptName(1)].acc = 1700 * MeanDen

\* C19: an epoch without a validation round, or whose validation rounds all
\* have mean accuracy 0, keeps curr_best_accuracy_epoch = 0 and writes no
\* checkpoint; an epoch ending with curr_best_accuracy_epoch = 0 never raises
\* curr_best_accuracy, and the run stops at it whenever
\* epoch >= min_epoch_num - 1, epoch 0 with no checkpoint written included.
C19_ZeroEpochStops ==
    /\ []((pc = "train" /\ epoch >= 0 /\ rounds = 0) =>
            /\ curr_best_accuracy_epoch = 0
            /\ ~(CkptName(epoch) \in DOMAIN files /\ files[CkptName(epoch)].by = "run"))
    /\ [][(AtRoundEnd /\ Len(vaccus) > 0 /\ Total(vaccus, Len(vaccus)) = 0) =>
            /\ curr_best_accuracy_epoch' = curr_best_accuracy_epoch
            /\ files' = files]_vars
    /\ []((pc \in {"train", "valid"} /\ epoch >= 0 /\ curr_best_accuracy_epoch = 0) =>
            ~(CkptName(epoch) \in DOMAIN files /\ files[CkptName(epoch)].by = "run"))
    /\ [][(AtEpochEnd /\ curr_best_accuracy_epoch = 0) =>
            /\ curr_best_accuracy' = curr_best_accuracy
            /\ files' = files
            /\ (epoch >= cfg.min_epoch_num - 1) => pc' = "stopped_early"
            /\ (epoch < cfg.min_epoch_num - 1) => pc' # "stopped_early"]_vars

\* C19 witness: the run stopped at epoch 0, whose only validation round
\* scored 0 on every batch, and the run wrote no checkpoint.
C19_Witness ==
    /\ pc = "stopped_early"
    /\ epoch = 0
    /\ rounds >= 1
    /\ Len(vaccus) >= 1
    /\ \A k \in 1..Len(vaccus) : vaccus[k] = 0
    /\ curr_best_accuracy_epoch = 0
    /\ \A n \in DOMAIN files : files[n].by # "run"

====
